---- MODULE Spec2Model ----
(***************************************************************************)
(* Model of cleanup-archive/analysis/mcp_server_diagnostic.py: the global  *)
(* diagnostics ledger, the process runner, the two prerequisite checks,    *)
(* the server locator, the connectivity probe, the report synthesizer and  *)
(* the top-level exception handlers, as one sequential pipeline.           *)
(***************************************************************************)
EXTENDS Integers, Sequences, FiniteSets, TLC

\* ------------------------------------------------------------------ bounds
\* Exit statuses 0..MaxExit of a child that exits on its own.
MaxExit == 2
\* Signal numbers 1..MaxSignal that may end a child.
MaxSignal == 2

\* -------------------------------------------------------- program constants
\* run_command: the code returned when subprocess.TimeoutExpired is caught.
TimeoutCode == -1
\* run_command: the code returned when any other Exception is caught.
ErrorCode == -2
\* check_node_version: major_version < 18.
MinNodeMajor == 18
\* generate_report: issues_found < 3.
CriticalThreshold == 3
\* __main__: sys.exit(130) on KeyboardInterrupt.
InterruptExit == 130

VARIABLES
    pc,           \* position of main(): the next stage to run
    diagnostics,  \* the global diagnostics dict
    node_ok,      \* main: result of check_node_version()
    sdk_ok,       \* main: result of check_mcp_sdk()
    server_path,  \* main: index into possible_paths, 0 for None
    server_ok,    \* main: result of the connection test
    node_run,     \* what the "node --version" child did and what run_command returned
    sdk_run,      \* the same for "npm list"
    client_run,   \* the same for the throwaway client
    fs,           \* the files the tool touches
    probe,        \* progress of test_mcp_server_connection
    report,       \* the report file generate_report wrote, if any
    exit_code,    \* process exit code, meaningful when pc = "exited"
    how           \* how the process ended

vars == <<pc, diagnostics, node_ok, sdk_ok, server_path, server_ok,
          node_run, sdk_run, client_run, fs, probe, report, exit_code, how>>

\* ------------------------------------------------------------------ ledger

\* str.upper() on the level strings that occur.
upper(level) ==
    CASE level \in {"INFO", "info", "Info"} -> "INFO"
      [] level \in {"SUCCESS", "success"} -> "SUCCESS"
      [] level \in {"WARNING", "warning", "Warning"} -> "WARNING"
      [] level \in {"ERROR", "error", "Error"} -> "ERROR"
      [] level \in {"DEBUG", "debug"} -> "DEBUG"
      [] OTHER -> level

\* log() counting only the ERROR entries.
log_mut(d, level, message) ==
    [d EXCEPT !.checks = Append(@, [level |-> upper(level), message |-> message]),
              !.issues_found = IF upper(level) = "ERROR" THEN @ + 1 ELSE @]

\* log(): append one entry, count it when its level is WARNING or ERROR.
log(d, level, message) ==
    [d EXCEPT !.checks = Append(@, [level |-> upper(level), message |-> message]),
              !.issues_found = IF upper(level) \in {"WARNING", "ERROR"}
                               THEN @ + 1 ELSE @]

\* diagnostics['recommendations'].append(text)
recommend(d, text, tools) ==
    [d EXCEPT !.recommendations = Append(@, [text |-> text, tools |-> tools])]

\* ---------------------------------------------------------- process runner

NoRun == [kind |-> "none", code |-> 0]

\* What can happen to a child process run by subprocess.run.
\*   exited        the child ran and exited with status n
\*   signaled      the child ran and was ended by signal n
\*   timeout       the deadline expired and the child was killed
\*   launch_failed the child could not be started (FileNotFoundError, ...)
\*   output_error  the child ran, but collecting its output raised
Fate(kind, n, stdout, stderr) ==
    [kind |-> kind, n |-> n, stdout |-> stdout, stderr |-> stderr]

\* The return code subprocess.run reports for a child that terminated.
returncode(fate) ==
    IF fate.kind = "signaled" THEN 0 - fate.n ELSE fate.n

\* run_command(): the INFO entry, then the child's fate mapped to
\* (code, stdout, stderr) and the ledger after the call.
run_command(d, fate) ==
    LET d1 == log(d, "INFO", "Running command") IN
    CASE fate.kind \in {"exited", "signaled"} ->
            [d |-> d1, code |-> returncode(fate),
             stdout |-> fate.stdout, stderr |-> fate.stderr]
      [] fate.kind = "timeout" ->
            [d |-> log(d1, "ERROR", "Command timed out"), code |-> TimeoutCode,
             stdout |-> fate.stdout, stderr |-> {"Timed out after N seconds"}]
      [] OTHER ->
            [d |-> log(d1, "ERROR", "Error running command"), code |-> ErrorCode,
             stdout |-> fate.stdout, stderr |-> fate.stderr]

\* What a caller remembers of a run.
Ran(fate, r) == [kind |-> fate.kind, n |-> fate.n, code |-> r.code,
                 stdout |-> fate.stdout, stderr |-> r.stderr]

\* ------------------------------------------------------------------- state

Init ==
    /\ pc = "start"
    /\ diagnostics = [node_version |-> <<>>, checks |-> <<>>, issues_found |-> 0,
                      recommendations |-> <<>>, severity |-> "NONE",
                      summary |-> [total_checks |-> 0, issues_found |-> 0,
                                   recommendations |-> 0]]
    /\ node_ok = FALSE
    /\ sdk_ok = FALSE
    /\ server_path = 0
    /\ server_ok = FALSE
    /\ node_run = NoRun
    /\ sdk_run = NoRun
    /\ client_run = NoRun
    /\ fs = [dir |-> FALSE, marker |-> FALSE, client |-> FALSE]
    /\ probe = [invoked |-> FALSE, ended |-> FALSE, returned |-> FALSE,
                failed_at |-> "none", made_marker |-> FALSE, made_client |-> FALSE,
                unlink_tried |-> FALSE]
    /\ report = [written |-> FALSE, severity |-> "NONE", issues_found |-> 0,
                 recommendations |-> <<>>]
    /\ exit_code = 0
    /\ how = "running"

\* ------------------------------------------------------- text as characters
\* Output of "node --version" is a sequence of one-character strings.

Digits == {"0", "1", "2", "3", "4", "5", "6", "7", "8", "9"}

DigitValue(c) ==
    CASE c = "0" -> 0 [] c = "1" -> 1 [] c = "2" -> 2 [] c = "3" -> 3 [] c = "4" -> 4
      [] c = "5" -> 5 [] c = "6" -> 6 [] c = "7" -> 7 [] c = "8" -> 8 [] OTHER -> 9

Whitespace == {" ", "\n"}

RECURSIVE lstrip(_, _)
\* str.lstrip(chars)
lstrip(s, chars) ==
    IF s # <<>> /\ Head(s) \in chars THEN lstrip(Tail(s), chars) ELSE s

RECURSIVE rstrip(_, _)
rstrip(s, chars) ==
    IF s # <<>> /\ s[Len(s)] \in chars THEN rstrip(SubSeq(s, 1, Len(s) - 1), chars) ELSE s

\* str.strip()
strip(s) == rstrip(lstrip(s, Whitespace), Whitespace)

RECURSIVE split_first(_, _)
\* str.split(sep)[0]: the text before the first separator
split_first(s, sep) ==
    IF s = <<>> \/ Head(s) = sep THEN <<>> ELSE <<Head(s)>> \o split_first(Tail(s), sep)

\* int(text) raises ValueError unless the text is a run of digits.
int_raises(s) == s = <<>> \/ \E i \in 1..Len(s) : s[i] \notin Digits

RECURSIVE int(_)
int(s) == IF s = <<>> THEN 0 ELSE 10 * int(SubSeq(s, 1, Len(s) - 1)) + DigitValue(s[Len(s)])

\* Sample outputs of a "node --version" that exits 0.
NodeStdouts ==
    { <<"v", "1", "6", ".", "2", ".", "0", "\n">>,
      <<"v", "1", "7", ".", "9", "\n">>,
      <<"v", "1", "8", ".", "0", ".", "0", "\n">>,
      <<"v", "2", "0", ".", "1", ".", "0", "\n">>,
      <<"2", "2", "\n">>,
      <<"v", "a", "b", "c", "\n">>,
      <<>> }

NodeFates ==
    { Fate("exited", 0, out, {}) : out \in NodeStdouts }
      \cup { Fate("exited", n, <<>>, {}) : n \in 1..MaxExit }
      \cup { Fate("signaled", n, <<>>, {}) : n \in 1..MaxSignal }
      \cup { Fate(k, 0, <<>>, {}) : k \in {"timeout", "launch_failed", "output_error"} }

\* --------------------------------------------------------- prerequisite checks

\* check_node_version(): raised is TRUE when int() raises ValueError, which
\* nothing in the function catches.
check_node_version(d, fate) ==
    LET r == run_command(d, fate)
        version == strip(r.stdout)
        d1 == log([r.d EXCEPT !.node_version = version], "INFO", "Node.js version")
        major_text == split_first(lstrip(version, {"v"}), ".")
    IN  IF r.code = 0
        THEN IF int_raises(major_text)
             THEN [d |-> d1, ok |-> FALSE, raised |-> TRUE, run |-> Ran(fate, r)]
             ELSE IF int(major_text) < MinNodeMajor
             THEN [d |-> recommend(log(d1, "WARNING", "Node.js version may be too old"),
                                   "Upgrade Node.js to version 18 or newer", <<>>),
                   ok |-> FALSE, raised |-> FALSE, run |-> Ran(fate, r)]
             ELSE [d |-> d1, ok |-> TRUE, raised |-> FALSE, run |-> Ran(fate, r)]
        ELSE [d |-> recommend(log(r.d, "ERROR", "Node.js is not installed or not in PATH"),
                              "Install Node.js version 18 or newer", <<>>),
              ok |-> FALSE, raised |-> FALSE, run |-> Ran(fate, r)]

\* Shapes of the output of "npm list ... --json":
\*   contains_name  "@modelcontextprotocol/sdk" in stdout
\*   json           what json.loads gives: "invalid" (JSONDecodeError), a "list",
\*                  a "str" or a "dict"
\*   has_deps       "dependencies" in npm_output
\*   deps           type of npm_output["dependencies"]
\*   has_pkg        "@modelcontextprotocol/sdk" in npm_output["dependencies"]
\*   pkg            type of npm_output["dependencies"]["@modelcontextprotocol/sdk"]
\*   has_version    "version" is a key of it
Npm(contains_name, json, has_deps, deps, has_pkg, pkg, has_version) ==
    [contains_name |-> contains_name, json |-> json, has_deps |-> has_deps,
     deps |-> deps, has_pkg |-> has_pkg, pkg |-> pkg, has_version |-> has_version]

NpmEmpty == Npm(FALSE, "dict", FALSE, "null", FALSE, "null", FALSE)

NpmStdouts ==
    { NpmEmpty,
      Npm(TRUE, "invalid", FALSE, "null", FALSE, "null", FALSE),
      Npm(TRUE, "list", FALSE, "null", FALSE, "null", FALSE),
      Npm(TRUE, "list", TRUE, "null", FALSE, "null", FALSE),
      Npm(TRUE, "str", TRUE, "null", FALSE, "null", FALSE),
      Npm(TRUE, "dict", FALSE, "null", FALSE, "null", FALSE),
      Npm(TRUE, "dict", TRUE, "null", FALSE, "null", FALSE),
      Npm(TRUE, "dict", TRUE, "dict", FALSE, "null", FALSE),
      Npm(TRUE, "dict", TRUE, "list", TRUE, "null", FALSE),
      Npm(TRUE, "dict", TRUE, "dict", TRUE, "str", FALSE),
      Npm(TRUE, "dict", TRUE, "dict", TRUE, "dict", FALSE),
      Npm(TRUE, "dict", TRUE, "dict", TRUE, "dict", TRUE) }

NpmFates ==
    { Fate("exited", 0, out, {}) : out \in NpmStdouts }
      \cup { Fate("exited", n, NpmEmpty, {}) : n \in 1..MaxExit }
      \cup { Fate("signaled", n, NpmEmpty, {}) : n \in 1..MaxSignal }
      \cup { Fate(k, 0, NpmEmpty, {}) : k \in {"timeout", "launch_failed", "output_error"} }

\* Lines 158-162 of check_mcp_sdk: "found" the version was read, "absent" the
\* function falls through to the warning, "raised" an exception other than
\* JSONDecodeError (TypeError, KeyError) leaves the function.
read_sdk_version(out) ==
    IF out.json = "invalid" THEN "absent"
    ELSE IF ~out.has_deps THEN "absent"
    ELSE IF out.json # "dict" THEN "raised"
    ELSE IF out.deps = "null" THEN "raised"
    ELSE IF ~out.has_pkg THEN "absent"
    ELSE IF out.deps # "dict" THEN "raised"
    ELSE IF out.pkg # "dict" THEN "raised"
    ELSE IF ~out.has_version THEN "raised"
    ELSE "found"

\* check_mcp_sdk()
check_mcp_sdk(d, fate) ==
    LET r == run_command(d, fate)
        got == IF r.code = 0 /\ r.stdout.contains_name
               THEN read_sdk_version(r.stdout) ELSE "absent"
    IN  CASE got = "found" ->
                [d |-> log(r.d, "SUCCESS", "@modelcontextprotocol/sdk found"),
                 ok |-> TRUE, raised |-> FALSE, run |-> Ran(fate, r)]
          [] got = "raised" ->
                [d |-> r.d, ok |-> FALSE, raised |-> TRUE, run |-> Ran(fate, r)]
          [] OTHER ->
                [d |-> recommend(log(r.d, "WARNING",
                                     "@modelcontextprotocol/sdk not found or has invalid version"),
                                 "Install @modelcontextprotocol/sdk package", <<>>),
                 ok |-> FALSE, raised |-> FALSE, run |-> Ran(fate, r)]

\* ---------------------------------------------------------- server locator

possible_paths ==
    << "dist/entrypoints/mcp.js", "dist/src/entrypoints/mcp.js", "src/entrypoints/mcp.ts" >>

\* find_mcp_server_file(): the first of possible_paths that exists, 0 for None.
find_mcp_server_file(d, existing) ==
    LET hits == { i \in 1..Len(possible_paths) : i \in existing } IN
    IF hits # {}
    THEN [d |-> log(d, "INFO", "Found MCP server at"),
          path |-> CHOOSE i \in hits : \A j \in hits : i <= j]
    ELSE [d |-> log(d, "ERROR", "Could not find MCP server file"), path |-> 0]

\* ------------------------------------------------------- connectivity probe

\* Pieces of text a client's stderr may hold.
Fragments ==
    { "ENOENT", "SyntaxError: Unexpected token", "Error: Cannot find module",
      "import", "require" }

\* needle in fragment, for the needles the probe looks for.
substring(needle, fragment) ==
    \/ needle = fragment
    \/ needle = "SyntaxError" /\ fragment = "SyntaxError: Unexpected token"
    \/ needle = "Error:" /\ fragment \in {"SyntaxError: Unexpected token",
                                           "Error: Cannot find module"}

\* needle in stderr
contains(stderr, needle) == \E f \in stderr : substring(needle, f)

Stderrs == SUBSET Fragments

ToolNames == {"bash", "fileRead", "fileWrite", "glob"}

expected_tools == <<"bash", "fileRead", "fileWrite">>

\* Shapes of a successful client's stdout:
\*   has_marker  "Tools available:" in stdout
\*   json        what json.loads(tools_str) gives: "invalid", a "number", a "list"
\*   tools       the names in the list
ClientOut(has_marker, json, tools) ==
    [has_marker |-> has_marker, json |-> json, tools |-> tools]

ClientSilent == ClientOut(FALSE, "invalid", {})

ClientStdouts ==
    { ClientSilent, ClientOut(TRUE, "invalid", {}), ClientOut(TRUE, "number", {}) }
      \cup { ClientOut(TRUE, "list", t) : t \in SUBSET ToolNames }

ClientFates ==
    { Fate("exited", 0, out, {}) : out \in ClientStdouts }
      \cup { Fate("exited", n, ClientSilent, e) : n \in 1..MaxExit, e \in Stderrs }
      \cup { Fate("signaled", n, ClientSilent, e) : n \in 1..MaxSignal, e \in Stderrs }
      \cup { Fate("timeout", 0, ClientSilent, {}) }
      \cup { Fate(k, 0, ClientSilent, e) : k \in {"launch_failed", "output_error"}, e \in Stderrs }

\* check_tools() reporting the missing tools at INFO level.
check_tools_mut(d, out) ==
    IF ~out.has_marker THEN d
    ELSE IF out.json # "list" THEN log(d, "WARNING", "Could not parse tools list")
    ELSE LET d1 == log(d, "INFO", "Server offers tools")
             missing_tools == SelectSeq(expected_tools, LAMBDA t : t \notin out.tools)
         IN  IF missing_tools # <<>>
             THEN recommend(log(d1, "INFO", "Missing expected tools"),
                            "Implement missing tools", missing_tools)
             ELSE d1

\* Lines 327-343: the tools the server offers against the expected ones.
check_tools(d, out) ==
    IF ~out.has_marker THEN d
    ELSE IF out.json # "list" THEN log(d, "WARNING", "Could not parse tools list")
    ELSE LET d1 == log(d, "INFO", "Server offers tools")
             missing_tools == SelectSeq(expected_tools, LAMBDA t : t \notin out.tools)
         IN  IF missing_tools # <<>>
             THEN recommend(log(d1, "WARNING", "Missing expected tools"),
                            "Implement missing tools", missing_tools)
             ELSE d1

\* analyze_errors() with three independent tests instead of one if/elif chain.
analyze_errors_mut(d, stderr) ==
    LET d1 == IF contains(stderr, "ENOENT")
              THEN recommend(log(d, "ERROR", "Server file not found or not executable"),
                             "Verify server file path and permissions", <<>>)
              ELSE d
        d2 == IF contains(stderr, "SyntaxError")
              THEN recommend(log(d1, "ERROR", "JavaScript syntax error in server or client"),
                             "Check for syntax errors in server code", <<>>)
              ELSE d1
    IN  IF contains(stderr, "Error:") /\ contains(stderr, "import")
           /\ contains(stderr, "require")
        THEN recommend(log(d2, "ERROR", "Module import/require error"),
                       "Check for ESM/CommonJS compatibility issues in the MCP server", <<>>)
        ELSE d2

\* Lines 351-361: classification of a failed client's stderr.
analyze_errors(d, stderr) ==
    IF contains(stderr, "ENOENT")
    THEN recommend(log(d, "ERROR", "Server file not found or not executable"),
                   "Verify server file path and permissions", <<>>)
    ELSE IF contains(stderr, "SyntaxError")
    THEN recommend(log(d, "ERROR", "JavaScript syntax error in server or client"),
                   "Check for syntax errors in server code", <<>>)
    ELSE IF contains(stderr, "Error:") /\ contains(stderr, "import")
            /\ contains(stderr, "require")
    THEN recommend(log(d, "ERROR", "Module import/require error"),
                   "Check for ESM/CommonJS compatibility issues in the MCP server", <<>>)
    ELSE d

\* Lines 320-363: evaluation of the client's outcome.
evaluate(d, r) ==
    IF r.code = 0
    THEN check_tools(log(d, "SUCCESS", "Connected to MCP server successfully"), r.stdout)
    ELSE analyze_errors(log(d, "ERROR", "Failed to connect to MCP server"), r.stderr)

\* ------------------------------------------------------ report synthesizer

\* severity_of() with the threshold compared by <= instead of <.
severity_of_mut(issues_found) ==
    IF issues_found = 0 THEN "HEALTHY"
    ELSE IF issues_found <= CriticalThreshold THEN "WARNING"
    ELSE "CRITICAL"

\* Lines 379-384 of generate_report.
severity_of(issues_found) ==
    IF issues_found = 0 THEN "HEALTHY"
    ELSE IF issues_found < CriticalThreshold THEN "WARNING"
    ELSE "CRITICAL"

\* Lines 372-384 of generate_report: the summary and the severity.
summarize(d) ==
    [d EXCEPT !.summary = [total_checks |-> Len(d.checks),
                           issues_found |-> d.issues_found,
                           recommendations |-> Len(d.recommendations)],
              !.severity = severity_of(d.issues_found)]

\* -------------------------------------------------------------------- main

\* An exception that reaches the "except Exception" handler of __main__.
Unhandled ==
    /\ pc' = "exited"
    /\ exit_code' = 1
    /\ how' = "unhandled"

\* main(), lines 427-439: the target directory and the first two ledger entries.
Start ==
    /\ pc = "start"
    /\ \E given \in BOOLEAN, exists \in BOOLEAN, mkdtemp_ok \in BOOLEAN :
         IF given
         THEN /\ fs' = [fs EXCEPT !.dir = exists]
              /\ diagnostics' = log(diagnostics, "INFO", "Starting MCP server diagnostics")
              /\ pc' = "check_node"
              /\ UNCHANGED <<exit_code, how>>
         ELSE IF mkdtemp_ok
         THEN /\ fs' = [fs EXCEPT !.dir = TRUE]
              /\ diagnostics' = log(log(diagnostics, "INFO", "Created temporary test directory"),
                                    "INFO", "Starting MCP server diagnostics")
              /\ pc' = "check_node"
              /\ UNCHANGED <<exit_code, how>>
         ELSE /\ Unhandled
              /\ UNCHANGED <<fs, diagnostics>>
    /\ UNCHANGED <<node_ok, sdk_ok, server_path, server_ok, node_run, sdk_run,
                   client_run, probe, report>>

\* main(), line 442: node_ok = check_node_version()
CheckNodeVersion ==
    /\ pc = "check_node"
    /\ \E fate \in NodeFates :
         LET c == check_node_version(diagnostics, fate) IN
         /\ diagnostics' = c.d
         /\ node_run' = c.run
         /\ IF c.raised
            THEN Unhandled /\ UNCHANGED node_ok
            ELSE /\ node_ok' = c.ok
                 /\ pc' = "check_sdk"
                 /\ UNCHANGED <<exit_code, how>>
    /\ UNCHANGED <<sdk_ok, server_path, server_ok, sdk_run, client_run, fs, probe, report>>

\* main(), line 445: sdk_ok = check_mcp_sdk()
CheckMcpSdk ==
    /\ pc = "check_sdk"
    /\ \E fate \in NpmFates :
         LET c == check_mcp_sdk(diagnostics, fate) IN
         /\ diagnostics' = c.d
         /\ sdk_run' = c.run
         /\ IF c.raised
            THEN Unhandled /\ UNCHANGED sdk_ok
            ELSE /\ sdk_ok' = c.ok
                 /\ pc' = "find_server"
                 /\ UNCHANGED <<exit_code, how>>
    /\ UNCHANGED <<node_ok, server_path, server_ok, node_run, client_run, fs, probe, report>>

\* main(), line 448: server_path = find_mcp_server_file()
FindMcpServerFile ==
    /\ pc = "find_server"
    /\ \E existing \in SUBSET (1..Len(possible_paths)) :
         LET f == find_mcp_server_file(diagnostics, existing) IN
         /\ diagnostics' = f.d
         /\ server_path' = f.path
    /\ pc' = "gate"
    /\ UNCHANGED <<node_ok, sdk_ok, server_ok, node_run, sdk_run, client_run, fs,
                   probe, report, exit_code, how>>

\* main(), line 451: the gate of the connection test.
prerequisites_met == node_ok /\ sdk_ok /\ server_path # 0

\* main(), lines 453-455: the connection test is skipped.
CannotTest ==
    /\ pc = "gate"
    /\ ~prerequisites_met
    /\ diagnostics' = log(diagnostics, "ERROR", "Cannot test MCP server without prerequisites")
    /\ server_ok' = FALSE
    /\ pc' = "report"
    /\ UNCHANGED <<node_ok, sdk_ok, server_path, node_run, sdk_run, client_run, fs,
                   probe, report, exit_code, how>>

\* test_mcp_server_connection(), lines 289-304: the working directory, the
\* marker file and the client file. failure names the call that raises OSError;
\* nothing in the function or in main() catches it.
TestConnectionSetup ==
    /\ pc = "gate"
    /\ prerequisites_met
    /\ \E failure \in {"none", "makedirs", "open"} :
         LET made_dir == ~fs.dir /\ failure # "makedirs"
             d1 == IF made_dir THEN log(diagnostics, "INFO", "Created test directory")
                   ELSE diagnostics
             made_marker == failure = "none"
             made_client == failure = "none"
         IN  /\ failure = "makedirs" => ~fs.dir
             /\ fs' = [dir |-> fs.dir \/ made_dir, marker |-> fs.marker \/ made_marker,
                       client |-> made_client]
             /\ probe' = [probe EXCEPT !.invoked = TRUE, !.failed_at = failure,
                                       !.ended = failure # "none",
                                       !.made_marker = made_marker,
                                       !.made_client = made_client]
             /\ IF failure = "none"
                THEN /\ diagnostics' = log(d1, "INFO", "Created test client at")
                     /\ pc' = "probe_run"
                     /\ UNCHANGED <<exit_code, how>>
                ELSE /\ diagnostics' = d1
                     /\ Unhandled
    /\ UNCHANGED <<node_ok, sdk_ok, server_path, server_ok, node_run, sdk_run,
                   client_run, report>>

\* test_mcp_server_connection(), lines 306-363: the client is run, its file is
\* unlinked (a failing unlink is swallowed) and the outcome is evaluated.
TestConnectionRun ==
    /\ pc = "probe_run"
    /\ \E fate \in ClientFates, unlinked \in BOOLEAN :
         LET r == run_command(diagnostics, fate) IN
         /\ client_run' = Ran(fate, r)
         /\ fs' = [fs EXCEPT !.client = ~unlinked]
         /\ diagnostics' = evaluate(r.d, r)
         /\ server_ok' = (r.code = 0)
    /\ probe' = [probe EXCEPT !.ended = TRUE, !.returned = TRUE, !.unlink_tried = TRUE]
    /\ pc' = "report"
    /\ UNCHANGED <<node_ok, sdk_ok, server_path, node_run, sdk_run, report,
                   exit_code, how>>

\* main(), lines 458-462: generate_report(), then the exit code. A report file
\* that cannot be opened or written raises out of main().
GenerateReport ==
    /\ pc = "report"
    /\ \E written \in BOOLEAN :
         LET d1 == summarize(diagnostics) IN
         IF written
         THEN /\ report' = [written |-> TRUE, severity |-> d1.severity,
                            issues_found |-> d1.issues_found,
                            recommendations |-> d1.recommendations]
              /\ diagnostics' = log(d1, "INFO", "Diagnostic report saved to")
              /\ pc' = "exited"
              /\ exit_code' = IF server_ok THEN 0 ELSE 1
              /\ how' = "main"
         ELSE /\ diagnostics' = d1
              /\ Unhandled
              /\ UNCHANGED report
    /\ UNCHANGED <<node_ok, sdk_ok, server_path, server_ok, node_run, sdk_run,
                   client_run, fs, probe>>

\* __main__, lines 467-469: KeyboardInterrupt while main() runs.
Interrupt ==
    /\ pc # "exited"
    /\ pc' = "exited"
    /\ exit_code' = InterruptExit
    /\ how' = "interrupt"
    /\ probe' = IF probe.invoked /\ ~probe.ended THEN [probe EXCEPT !.ended = TRUE] ELSE probe
    /\ UNCHANGED <<diagnostics, node_ok, sdk_ok, server_path, server_ok, node_run,
                   sdk_run, client_run, fs, report>>

Next ==
    \/ Start
    \/ CheckNodeVersion
    \/ CheckMcpSdk
    \/ FindMcpServerFile
    \/ CannotTest
    \/ TestConnectionSetup
    \/ TestConnectionRun
    \/ GenerateReport
    \/ Interrupt

Spec == Init /\ [][Next]_vars

\* ------------------------------------------------------------------ claims

IsIssue(entry) == entry.level \in {"WARNING", "ERROR"}

\* Number of entries of a ledger that satisfy Test.
Count(seq, Test(_)) == Cardinality({ i \in 1..Len(seq) : Test(seq[i]) })

IsPrefix(a, b) == Len(a) <= Len(b) /\ SubSeq(b, 1, Len(a)) = a

HasMessage(message) == \E i \in 1..Len(diagnostics.checks) :
                            diagnostics.checks[i].message = message

\* Level strings a caller may pass to log(), in any case, known or not.
LevelStrings ==
    { "INFO", "info", "SUCCESS", "success", "WARNING", "Warning", "warning",
      "ERROR", "Error", "error", "DEBUG", "debug", "TRACE" }

\* C1: in every reachable state issues_found equals the number of WARNING or
\* ERROR entries of checks, and a further call of log() with any level string
\* keeps it so, appending one entry at the end and not lowering the counter;
\* on every step of a run checks only grows by appending at its end and
\* issues_found never decreases.
C1_IssuesFoundCountsLedger ==
    /\ [](diagnostics.issues_found = Count(diagnostics.checks, IsIssue))
    /\ [](\A level \in LevelStrings :
            LET d == log(diagnostics, level, "message") IN
            /\ d.issues_found = Count(d.checks, IsIssue)
            /\ Len(d.checks) = Len(diagnostics.checks) + 1
            /\ IsPrefix(diagnostics.checks, d.checks)
            /\ d.issues_found >= diagnostics.issues_found)
    /\ [][/\ IsPrefix(diagnostics.checks, diagnostics'.checks)
          /\ diagnostics'.issues_found >= diagnostics.issues_found]_vars

\* C1 witness: a ledger holding INFO, WARNING and ERROR entries.
C1_Witness ==
    /\ \E i \in 1..Len(diagnostics.checks) : diagnostics.checks[i].level = "WARNING"
    /\ \E i \in 1..Len(diagnostics.checks) : diagnostics.checks[i].level = "ERROR"
    /\ \E i \in 1..Len(diagnostics.checks) : diagnostics.checks[i].level = "INFO"
    /\ diagnostics.issues_found >= CriticalThreshold

\* C2: once generate_report has set it, severity is HEALTHY exactly for 0
\* issues, WARNING exactly for 1 or 2, CRITICAL exactly for 3 or more; the
\* report file carries the same severity; severity changes only in the
\* report stage, from unset.
C2_SeverityIsFunctionOfIssues ==
    /\ [](diagnostics.severity # "NONE" =>
            /\ diagnostics.severity \in {"HEALTHY", "WARNING", "CRITICAL"}
            /\ diagnostics.severity = "HEALTHY" <=> diagnostics.issues_found = 0
            /\ diagnostics.severity = "WARNING" <=> diagnostics.issues_found \in {1, 2}
            /\ diagnostics.severity = "CRITICAL" <=> diagnostics.issues_found >= 3
            /\ report.written => report.severity = diagnostics.severity)
    /\ [][diagnostics'.severity # diagnostics.severity =>
            pc = "report" /\ diagnostics.severity = "NONE"]_vars

\* C2 witness: a written report of exactly 3 issues, the first CRITICAL count.
C2_Witness ==
    /\ report.written
    /\ diagnostics.issues_found = 3
    /\ diagnostics.severity = "CRITICAL"

\* C3 as claimed: an OSError from os.makedirs or from writing the marker file
\* fails the probe only: the report is still written and the run ends with
\* exit code 1 through main, not through the unhandled-exception handler.
C3_SetupFailureKeepsReport ==
    (pc = "exited" /\ probe.failed_at \in {"makedirs", "open"}) =>
        /\ client_run.kind = "none"
        /\ report.written
        /\ exit_code = 1
        /\ how = "main"

\* A run that neither the user interrupted nor the report file's write ended.
RunCompleted ==
    /\ pc = "exited"
    /\ how # "interrupt"
    /\ ~(how = "unhandled" /\ diagnostics.severity # "NONE")

\* C4 as claimed: when node cannot be launched, a completed run has not
\* invoked the probe, has written a report of severity WARNING or CRITICAL
\* and exits with code 1.
C4_NodeMissingStillReports ==
    (RunCompleted /\ node_run.kind = "launch_failed") =>
        /\ ~probe.invoked
        /\ client_run.kind = "none"
        /\ ~fs.client
        /\ report.written
        /\ report.severity \in {"WARNING", "CRITICAL"}
        /\ exit_code = 1

IsSdkWarning(entry) ==
    entry = [level |-> "WARNING",
             message |-> "@modelcontextprotocol/sdk not found or has invalid version"]

IsSdkSuccess(entry) ==
    entry = [level |-> "SUCCESS", message |-> "@modelcontextprotocol/sdk found"]

IsInstallSdk(r) == r.text = "Install @modelcontextprotocol/sdk package"

\* C5 as claimed: once the package check has run its query it has not raised:
\* it either returned true with one SUCCESS, the dependency and its version
\* being present, or returned false with exactly one WARNING and exactly one
\* install recommendation.
C5_SdkCheckNeverRaises ==
    sdk_run.kind # "none" =>
        IF sdk_ok
        THEN /\ Count(diagnostics.checks, IsSdkSuccess) = 1
             /\ Count(diagnostics.checks, IsSdkWarning) = 0
             /\ sdk_run.code = 0
             /\ sdk_run.stdout.has_pkg /\ sdk_run.stdout.has_version
        ELSE /\ Count(diagnostics.checks, IsSdkSuccess) = 0
             /\ Count(diagnostics.checks, IsSdkWarning) = 1
             /\ Count(diagnostics.recommendations, IsInstallSdk) = 1

Runs == {node_run, sdk_run, client_run}

\* C6 as claimed: the two sentinels differ, the timeout sentinel is returned
\* only when the deadline expired, and the launch-failure sentinel only when
\* the child never started.
C6_SentinelsAreDistinct ==
    /\ TimeoutCode # ErrorCode
    /\ node_run.kind # "none" =>
          /\ node_run.code = TimeoutCode => node_run.kind = "timeout"
          /\ node_run.code = ErrorCode => node_run.kind = "launch_failed"
    /\ sdk_run.kind # "none" =>
          /\ sdk_run.code = TimeoutCode => sdk_run.kind = "timeout"
          /\ sdk_run.code = ErrorCode => sdk_run.kind = "launch_failed"
    /\ client_run.kind # "none" =>
          /\ client_run.code = TimeoutCode => client_run.kind = "timeout"
          /\ client_run.code = ErrorCode => client_run.kind = "launch_failed"

\* C7 as claimed: when the probe call has ended, however it ended, the marker
\* file it wrote is gone and the client file it wrote is gone or its deletion
\* was attempted.
C7_ProbeCleansUp ==
    probe.ended =>
        /\ probe.made_marker => ~fs.marker
        /\ probe.made_client => (~fs.client \/ probe.unlink_tried)

\* The classification rules in their priority order.
Rules ==
    << [needles |-> {"ENOENT"},
        message |-> "Server file not found or not executable",
        advice |-> "Verify server file path and permissions"],
       [needles |-> {"SyntaxError"},
        message |-> "JavaScript syntax error in server or client",
        advice |-> "Check for syntax errors in server code"],
       [needles |-> {"Error:", "import", "require"},
        message |-> "Module import/require error",
        advice |-> "Check for ESM/CommonJS compatibility issues in the MCP server"] >>

Matching(stderr) ==
    { k \in 1..Len(Rules) : \A n \in Rules[k].needles : contains(stderr, n) }

IsGenericFailure(entry) ==
    entry = [level |-> "ERROR", message |-> "Failed to connect to MCP server"]

\* The ledger entries the probe appended after its generic failure entry.
AfterGenericFailure ==
    LET c == diagnostics.checks
        i == CHOOSE k \in 1..Len(c) : IsGenericFailure(c[k])
    IN  SelectSeq(SubSeq(c, i + 1, Len(c)),
                  LAMBDA e : e.message # "Diagnostic report saved to")

ProbeFailed == probe.returned /\ client_run.code # 0

\* C8: after a failed probe run the ledger holds the generic failure ERROR
\* once, followed by nothing when no rule matches stderr, and otherwise by the
\* one ERROR of the first matching rule in the order ENOENT, SyntaxError,
\* import/require, with that rule's recommendation as the only recommendation.
C8_FirstMatchingRuleOnly ==
    ProbeFailed =>
        /\ Count(diagnostics.checks, IsGenericFailure) = 1
        /\ LET m == Matching(client_run.stderr) IN
           IF m = {}
           THEN /\ AfterGenericFailure = <<>>
                /\ diagnostics.recommendations = <<>>
           ELSE LET first == CHOOSE k \in m : \A j \in m : k <= j IN
                /\ AfterGenericFailure =
                      << [level |-> "ERROR", message |-> Rules[first].message] >>
                /\ diagnostics.recommendations =
                      << [text |-> Rules[first].advice, tools |-> <<>>] >>

\* C8 witness: a failed probe whose stderr carries all three signatures and
\* whose only classification is the ENOENT one.
C8_Witness ==
    /\ ProbeFailed
    /\ Matching(client_run.stderr) = {1, 2, 3}
    /\ HasMessage("Server file not found or not executable")

\* C9 as claimed: every run that executed the runtime check and was not
\* interrupted also executed the package check, and the package check never
\* runs before the runtime check.
C9_BothChecksAlwaysRun ==
    /\ sdk_run.kind # "none" => node_run.kind # "none"
    /\ (pc = "exited" /\ how # "interrupt" /\ node_run.kind # "none") =>
          sdk_run.kind # "none"

\* C10: a report written with severity HEALTHY implies both checks returned
\* ok, the server file was located, the probe ran and its client exited with
\* code 0, no recommendation was made and the process exits with code 0. The
\* converse fails: whenever the client is about to run, a successful outcome
\* with a WARNING is possible, and such a run exits 0 with severity WARNING.
C10_HealthyImpliesCleanRun ==
    /\ (report.written /\ report.severity = "HEALTHY") =>
          /\ node_ok /\ sdk_ok /\ server_path # 0
          /\ probe.invoked /\ probe.returned
          /\ client_run.kind = "exited" /\ client_run.code = 0
          /\ report.recommendations = <<>>
          /\ diagnostics.recommendations = <<>>
          /\ pc = "exited" /\ exit_code = 0
    /\ pc = "probe_run" =>
          ENABLED (TestConnectionRun /\ server_ok' /\ diagnostics'.issues_found = 1)
    /\ (pc = "report" /\ server_ok /\ diagnostics.issues_found = 1) =>
          ENABLED (GenerateReport /\ exit_code' = 0 /\ report'.severity = "WARNING")

\* C10 witness: a HEALTHY report has been written.
C10_Witness == report.written /\ report.severity = "HEALTHY"

====
